---- MODULE Spec2Model ----
(***************************************************************************)
(* The inference engine of the akinator game (src/engine.py): the          *)
(* posterior store, the likelihood model, the Bayesian update, the         *)
(* entropy-based question selection, the candidate reports and the         *)
(* attribute reinforcement; and the driver that plays sessions on it       *)
(* (play_game and main of src/main.py, with the knowledge base of          *)
(* src/knowledge_base.py whose dicts the engine shares).                   *)
(*                                                                         *)
(* Numbers.  The engine computes with Python floats.  The model computes   *)
(* with exact rationals [n |-> numerator, d |-> denominator] in lowest     *)
(* terms, d > 0: the real-number reading of every expression of the code.  *)
(* math.log2 is modelled in fixed point (Log2Fx).                          *)
(***************************************************************************)
EXTENDS Integers, Sequences, FiniteSets, TLC

\* ---------------------------------------------------------------- bounds
\* update_probabilities calls in one behaviour
MaxUpdates == 2
\* reinforce_entity calls in one behaviour
MaxReinforce == 1
\* largest n handed to get_top_candidates
MaxTopN == 3
\* entities of the large catalog
LargeN == 2048
\* update_probabilities calls in one behaviour of the floating-point engine
MaxFloatUpdates == 330

\* ------------------------------------------------------------- rationals
Abs(x) == IF x < 0 THEN -x ELSE x

RECURSIVE GCD(_, _)
GCD(a, b) == IF b = 0 THEN a ELSE GCD(b, a % b)

\* the rational n/d (d # 0) in lowest terms
R(n, d) ==
    LET g == GCD(Abs(n), Abs(d))
        s == IF d < 0 THEN -1 ELSE 1
    IN  [n |-> s * (n \div g), d |-> s * (d \div g)]

Zero == R(0, 1)
One == R(1, 1)

RAdd(x, y) ==
    LET g == GCD(x.d, y.d)
    IN  R(x.n * (y.d \div g) + y.n * (x.d \div g), (x.d \div g) * y.d)

RNeg(x) == [n |-> -x.n, d |-> x.d]
RSub(x, y) == RAdd(x, RNeg(y))

RMul(x, y) ==
    LET g1 == GCD(Abs(x.n), y.d)
        g2 == GCD(Abs(y.n), x.d)
    IN  R((x.n \div g1) * (y.n \div g2), (x.d \div g2) * (y.d \div g1))

\* x / y, y # 0
RDiv(x, y) == RMul(x, R(y.d, y.n))

RLt(x, y) ==
    LET g == GCD(x.d, y.d)
    IN  x.n * (y.d \div g) < y.n * (x.d \div g)

RLe(x, y) == ~RLt(y, x)
RAbs(x) == [n |-> Abs(x.n), d |-> x.d]
RMax(x, y) == IF RLt(x, y) THEN y ELSE x
RMin(x, y) == IF RLt(y, x) THEN y ELSE x

\* the sum of the values of the dict d that are in vals, equal values
\* taken together
RECURSIVE RSumSet(_, _)
RSumSet(d, vals) ==
    IF vals = {} THEN Zero
    ELSE LET v == CHOOSE x \in vals : TRUE
             count == Cardinality({e \in DOMAIN d : d[e] = v})
         IN  RAdd(RMul(R(count, 1), v), RSumSet(d, vals \ {v}))

\* ------------------------------------------------------------ fixed point
\* math.log2 and the entropies built on it are computed in fixed point: a
\* logarithm has LogBits fractional bits, a probability that weighs one has
\* ProbBits.  Powers of two have exact logarithms.
LogBits == 11
ProbBits == 13
MantBits == 13

\* floor(log2(x)) for an integer x >= 1
RECURSIVE ILog2(_)
ILog2(x) == IF x < 2 THEN 0 ELSE 1 + ILog2(x \div 2)

\* the first k fractional bits of log2(m / 2^MantBits), 2^MantBits <= m < 2^(MantBits+1),
\* by repeated squaring
RECURSIVE Log2Frac(_, _)
Log2Frac(m, k) ==
    IF k = 0 THEN 0
    ELSE LET sq == (m * m) \div (2 ^ MantBits)
         IN  IF sq >= 2 ^ (MantBits + 1)
             THEN 2 ^ (k - 1) + Log2Frac(sq \div 2, k - 1)
             ELSE Log2Frac(sq, k - 1)

\* log2(x) * 2^LogBits for an integer x >= 1
Log2Fx(x) ==
    LET e == ILog2(x)
        m == IF e <= MantBits THEN x * 2 ^ (MantBits - e)
             ELSE x \div 2 ^ (e - MantBits)
    IN  e * 2 ^ LogBits + Log2Frac(m, LogBits)

\* floor(rem * 2^k / d) for 0 <= rem < d, by long division
RECURSIVE FracBits(_, _, _)
FracBits(rem, d, k) ==
    IF k = 0 THEN 0
    ELSE LET bit == IF 2 * rem >= d THEN 1 ELSE 0
         IN  bit * 2 ^ (k - 1) + FracBits(2 * rem - bit * d, d, k - 1)

\* floor(x * 2^ProbBits) for a rational x >= 0
ProbFx(x) == (x.n \div x.d) * 2 ^ ProbBits + FracBits(x.n % x.d, x.d, ProbBits)

\* log2(x) * 2^LogBits for a rational x > 0 (math.log2)
RLog2Fx(x) == Log2Fx(x.n) - Log2Fx(x.d)

\* (x * h) for a rational weight x >= 0 and a fixed-point h
WeighFx(x, h) == (ProbFx(x) * h) \div 2 ^ ProbBits


\* -------------------------------------------------------------- constants
\* engine.py:12  LIKELIHOOD_SCALING_FACTOR = 0.45
LIKELIHOOD_SCALING_FACTOR == R(9, 20)
\* engine.py:15  UNKNOWN_ANSWER_THRESHOLD = 0.01
UNKNOWN_ANSWER_THRESHOLD == R(1, 100)
\* engine.py:63  the floor of the likelihood
LikelihoodFloor == R(1, 10)
\* engine.py:88  the likelihood of an entity with no value for the question
NeutralLikelihood == R(1, 2)
\* engine.py:229  learning_rate: float = 0.1
DefaultLearningRate == R(1, 10)

\* ------------------------------------------------------------------ state
VARIABLES
    entities,         \* self.entities: name -> (question id -> value)
    entity_order,     \* the iteration order of the dict self.entities
    questions,        \* the ids of self.questions, in the dict's order
    probabilities,    \* self.probabilities: name -> posterior
    asked_questions,  \* self.asked_questions
    last,             \* the last call, its arguments and what it returned
    updates,          \* update_probabilities calls so far
    reinforces,       \* reinforce_entity calls so far
    game              \* the play_game session of main.py: where it is, its locals

vars == <<entities, entity_order, questions, probabilities, asked_questions,
          last, updates, reinforces, game>>

\* the empty dict
EmptyDict == [x \in {} |-> Zero]

\* the keys of probabilities in the dict's order: entities' order, because
\* probabilities is filled by iterating over entities (engine.py:42)
ProbOrder == SelectSeq(entity_order, LAMBDA e : e \in DOMAIN probabilities)

\* ------------------------------------------------------ inputs of a run
\* the catalogs an engine is constructed from
NoEntities ==
    [order |-> << >>, attrs |-> << >>, questions |-> <<"q1">>]

\* spec.md scenario A, with a second question no entity has a value for
DogBird ==
    [order |-> <<"Dog", "Bird">>,
     attrs |-> ("Dog" :> ("q1" :> R(1, 1))) @@ ("Bird" :> ("q1" :> R(-1, 1))),
     questions |-> <<"q1", "q2">>]

\* three entities, two of them alike on q1, one without a value for q2
DogCatFish ==
    [order |-> <<"Dog", "Cat", "Fish">>,
     attrs |-> ("Dog" :> ("q1" :> R(1, 1) @@ "q2" :> R(1, 2)))
               @@ ("Cat" :> ("q1" :> R(1, 1) @@ "q2" :> R(1, 1)))
               @@ ("Fish" :> ("q1" :> R(-1, 1))),
     questions |-> <<"q1", "q2">>]

Catalogs == {NoEntities, DogBird, DogCatFish}

\* question ids handed to update_probabilities: the
\* catalogs' ids and one id of no catalog
QuestionIds == {"q1", "q2", "q9"}

\* answers handed to update_probabilities: main.py's five (main.py:20-26)
\* and one nonzero answer below the threshold
Answers == {R(1, 1), R(1, 2), R(0, 1), R(-1, 2), R(-1, 1), R(1, 200)}

\* question ids handed to reinforce_entity: one every Dog has a value for,
\* one only some have
ReinforceIds == {"q1", "q2"}

\* entity names handed to reinforce_entity: the catalogs' and an unknown one
EntityNames == {"Dog", "Nobody"}

\* answers and rates handed to reinforce_entity, in and out of range
ReinforceAnswers == {R(-1, 2), R(3, 1)}
LearningRates == {DefaultLearningRate, R(5, 1)}

NoCall == [op |-> "construct", e |-> "", q |-> "", a |-> Zero, n |-> 0,
           lik |-> EmptyDict, ret |-> << >>]

\* no play_game call has started (main.py:220): pc is the place in play_game,
\* step the step that led there, answer_history, question_count and
\* best_guess its locals, games the play_game calls so far
NoGame == [pc |-> "idle", step |-> "construct", answer_history |-> EmptyDict,
           question_count |-> 0, best_guess |-> << >>, games |-> 0]

\* -------------------------------------------------------------- the engine
\* a variant that fills in only the entities with no posterior yet
initialize_missing_only(probs, ents) ==
    IF DOMAIN ents = {} THEN probs
    ELSE LET initial_prob == RDiv(One, R(Cardinality(DOMAIN ents), 1))
         IN  [e \in DOMAIN probs \cup DOMAIN ents |->
                 IF e \in DOMAIN probs THEN probs[e] ELSE initial_prob]

\* engine.py:37-43
initialize_probabilities(probs, ents) ==
    IF DOMAIN ents = {} THEN probs
    ELSE LET initial_prob == RDiv(One, R(Cardinality(DOMAIN ents), 1))
         IN  [e \in DOMAIN probs \cup DOMAIN ents |->
                 IF e \in DOMAIN ents THEN initial_prob ELSE probs[e]]

\* engine.py:21-35
Init ==
    \E c \in Catalogs :
        /\ entities = c.attrs
        /\ entity_order = c.order
        /\ questions = c.questions
        /\ probabilities = initialize_probabilities(EmptyDict, c.attrs)
        /\ asked_questions = {}
        /\ last = NoCall
        /\ updates = 0
        /\ reinforces = 0
        /\ game = NoGame

\* engine.py:45-48
reset ==
    /\ probabilities' = initialize_probabilities(probabilities, entities)
    /\ asked_questions' = {}
    /\ last' = [NoCall EXCEPT !.op = "reset"]
    /\ UNCHANGED <<entities, entity_order, questions, updates, reinforces, game>>

\* a variant that takes the signed difference
calculate_likelihood_signed(expected_value, answer) ==
    LET diff == RSub(expected_value, answer)
    IN  RMax(LikelihoodFloor, RSub(One, RMul(diff, LIKELIHOOD_SCALING_FACTOR)))

\* engine.py:50-63
calculate_likelihood(expected_value, answer) ==
    LET diff == RAbs(RSub(expected_value, answer))
    IN  RMax(LikelihoodFloor, RSub(One, RMul(diff, LIKELIHOOD_SCALING_FACTOR)))

\* a variant in which a missing value is no evidence at all (likelihood 1)
EntityLikelihoodMissingOne(attributes, question_id, answer) ==
    IF question_id \in DOMAIN attributes
    THEN calculate_likelihood(attributes[question_id], answer)
    ELSE One

\* engine.py:82-88: the likelihood of one entity's attributes
EntityLikelihood(attributes, question_id, answer) ==
    IF question_id \in DOMAIN attributes
    THEN calculate_likelihood(attributes[question_id], answer)
    ELSE NeutralLikelihood

\* engine.py:80-88
Likelihoods(ents, question_id, answer) ==
    [e \in DOMAIN ents |-> EntityLikelihood(ents[e], question_id, answer)]

\* engine.py:91-92
Multiplied(probs, likelihoods) ==
    [e \in DOMAIN probs |-> RMul(probs[e], likelihoods[e])]

\* sum(d.values()) (engine.py:95, 191)
SumValues(d) == RSumSet(d, {d[e] : e \in DOMAIN d})

\* a variant that never renormalizes
NormalizedNever(probs, total) == probs

\* engine.py:95-98
Normalized(probs, total) ==
    IF RLt(Zero, total)
    THEN [e \in DOMAIN probs |-> RDiv(probs[e], total)]
    ELSE probs

\* a variant that takes only the answer 0.0 for "unknown"
IsUnknownExactZero(answer) == answer = Zero

\* engine.py:76
IsUnknown(answer) == RLt(RAbs(answer), UNKNOWN_ANSWER_THRESHOLD)

\* engine.py:79-98: the posterior after an answer that is not "unknown"
Posterior(probs, ents, question_id, answer) ==
    LET multiplied == Multiplied(probs, Likelihoods(ents, question_id, answer))
    IN  Normalized(multiplied, SumValues(multiplied))

\* engine.py:65-98
update_probabilities(question_id, answer) ==
    /\ updates < MaxUpdates
    /\ asked_questions' = asked_questions \cup {question_id}
    /\ probabilities' =
         IF IsUnknown(answer) THEN probabilities
         ELSE Posterior(probabilities, entities, question_id, answer)
    /\ last' = [NoCall EXCEPT !.op = "update_probabilities", !.q = question_id,
                              !.a = answer,
                              !.lik = IF IsUnknown(answer) THEN EmptyDict
                                      ELSE Likelihoods(entities, question_id, answer)]
    /\ updates' = updates + 1
    /\ UNCHANGED <<entities, entity_order, questions, reinforces, game>>

\* engine.py:229-249: the entity catalog after reinforce_entity
Reinforced(ents, entity_name, question_id, answer, learning_rate) ==
    IF entity_name \notin DOMAIN ents THEN ents
    ELSE IF question_id \notin DOMAIN ents[entity_name]
    THEN [ents EXCEPT ![entity_name] = (question_id :> answer) @@ @]
    ELSE LET current_value == ents[entity_name][question_id]
             new_value == RAdd(current_value,
                               RMul(learning_rate, RSub(answer, current_value)))
         IN  [ents EXCEPT ![entity_name][question_id] =
                              RMax(R(-1, 1), RMin(One, new_value))]

\* engine.py:229-249
reinforce_entity(entity_name, question_id, answer, learning_rate) ==
    /\ reinforces < MaxReinforce
    /\ entities' = Reinforced(entities, entity_name, question_id, answer,
                              learning_rate)
    /\ last' = [NoCall EXCEPT !.op = "reinforce_entity", !.e = entity_name,
                              !.q = question_id, !.a = answer]
    /\ reinforces' = reinforces + 1
    /\ UNCHANGED <<entity_order, questions, probabilities, asked_questions,
                   updates, game>>

\* engine.py:141-142: what one probability adds to the entropy, * 2^LogBits
EntropyTerm(prob) ==
    IF RLt(Zero, prob) THEN -WeighFx(prob, RLog2Fx(prob)) ELSE 0

\* the sum of the entropy terms of the values of probs that are in vals,
\* equal values taken together
RECURSIVE EntropySum(_, _)
EntropySum(probs, vals) ==
    IF vals = {} THEN 0
    ELSE LET v == CHOOSE x \in vals : TRUE
             count == Cardinality({e \in DOMAIN probs : probs[e] = v})
         IN  count * EntropyTerm(v) + EntropySum(probs, vals \ {v})

\* engine.py:129-143: the entropy of the dict probs, * 2^LogBits
calculate_entropy(probs) == EntropySum(probs, {probs[e] : e \in DOMAIN probs})

\* engine.py:163-195: one simulated answer's share of the expected entropy
BranchEntropy(question_id, answer) ==
    LET temp_scores == [e \in DOMAIN entities |->
                           RMul(probabilities[e],
                                EntityLikelihood(entities[e], question_id, answer))]
        total_score == SumValues(temp_scores)
        uniform_prob == IF DOMAIN entities # {}
                        THEN RDiv(One, R(Cardinality(DOMAIN entities), 1))
                        ELSE Zero
        temp_probs == IF RLt(Zero, total_score)
                      THEN [e \in DOMAIN entities |-> RDiv(temp_scores[e], total_score)]
                      ELSE [e \in DOMAIN entities |-> uniform_prob]
        current_total == SumValues(probabilities)
        answer_prob == IF RLt(Zero, current_total)
                       THEN RDiv(total_score, current_total)
                       ELSE R(1, 2)
    IN  WeighFx(answer_prob, calculate_entropy(temp_probs))

\* engine.py:145-197
calculate_expected_entropy(question_id) ==
    BranchEntropy(question_id, One) + BranchEntropy(question_id, R(-1, 1))

\* engine.py:107
AvailableQuestions(qs, asked) == SelectSeq(qs, LAMBDA q : q \notin asked)

\* engine.py:113: max_info_gain = -1.0
InitialMaxInfoGain == -(2 ^ LogBits)

\* engine.py:118-125: the loop over available[i..], from (best, max_info_gain)
RECURSIVE BestFrom(_, _, _, _, _)
BestFrom(available, i, current_entropy, best_question, max_info_gain) ==
    IF i > Len(available) THEN best_question
    ELSE LET info_gain == current_entropy - calculate_expected_entropy(available[i])
         IN  IF info_gain > max_info_gain
             THEN BestFrom(available, i + 1, current_entropy, <<available[i]>>, info_gain)
             ELSE BestFrom(available, i + 1, current_entropy, best_question, max_info_gain)

\* engine.py:100-127: << >> is None
BestQuestion ==
    LET available_questions == AvailableQuestions(questions, asked_questions)
    IN  IF available_questions = << >> THEN << >>
        ELSE BestFrom(available_questions, 1,
                      calculate_entropy(probabilities),
                      << >>, InitialMaxInfoGain)

\* a variant that marks the question it selects as asked
get_best_question_marking ==
    /\ last' = [NoCall EXCEPT !.op = "get_best_question", !.ret = BestQuestion]
    /\ asked_questions' = asked_questions \cup {BestQuestion[i] : i \in 1..Len(BestQuestion)}
    /\ UNCHANGED <<entities, entity_order, questions, probabilities,
                   updates, reinforces, game>>

\* engine.py:100-127
get_best_question ==
    /\ last' = [NoCall EXCEPT !.op = "get_best_question", !.ret = BestQuestion]
    /\ UNCHANGED <<entities, entity_order, questions, probabilities,
                   asked_questions, updates, reinforces, game>>

\* a variant of the sort that puts an item before the items of equal key
RECURSIVE InsertDescUnstable(_, _)
InsertDescUnstable(sorted, x) ==
    IF sorted = << >> THEN <<x>>
    ELSE IF RLe(Head(sorted)[2], x[2]) THEN <<x>> \o sorted
    ELSE <<Head(sorted)>> \o InsertDescUnstable(Tail(sorted), x)

\* sorted(..., reverse=True) keeps items of equal key in their order: item x
\* goes behind every item whose key is not smaller
RECURSIVE InsertDesc(_, _)
InsertDesc(sorted, x) ==
    IF sorted = << >> THEN <<x>>
    ELSE IF RLt(Head(sorted)[2], x[2]) THEN <<x>> \o sorted
    ELSE <<Head(sorted)>> \o InsertDesc(Tail(sorted), x)

\* engine.py:209-213: the items of probs, by descending probability
RECURSIVE SortedEntities(_, _, _)
SortedEntities(probs, order, k) ==
    IF k = 0 THEN << >>
    ELSE InsertDesc(SortedEntities(probs, order, k - 1), <<order[k], probs[order[k]]>>)

\* engine.py:214: s[:n], n >= 0
FirstN(s, n) == SubSeq(s, 1, IF n < Len(s) THEN n ELSE Len(s))

\* engine.py:199-214
TopCandidates(n) ==
    FirstN(SortedEntities(probabilities, ProbOrder, Len(ProbOrder)), n)

\* engine.py:199-214
get_top_candidates(n) ==
    /\ last' = [NoCall EXCEPT !.op = "get_top_candidates", !.n = n,
                              !.ret = TopCandidates(n)]
    /\ UNCHANGED <<entities, entity_order, questions, probabilities,
                   asked_questions, updates, reinforces, game>>

\* max(items, key=...) returns the first item of the greatest key
RECURSIVE MaxItem(_, _, _, _)
MaxItem(probs, order, k, best) ==
    IF k > Len(order) THEN best
    ELSE IF RLt(best[2], probs[order[k]])
    THEN MaxItem(probs, order, k + 1, <<order[k], probs[order[k]]>>)
    ELSE MaxItem(probs, order, k + 1, best)

\* engine.py:216-227: << >> is None
BestGuess ==
    IF DOMAIN probabilities = {} THEN << >>
    ELSE <<MaxItem(probabilities, ProbOrder, 2,
                   <<ProbOrder[1], probabilities[ProbOrder[1]]>>)>>

\* engine.py:216-227
get_best_guess ==
    /\ last' = [NoCall EXCEPT !.op = "get_best_guess", !.ret = BestGuess]
    /\ UNCHANGED <<entities, entity_order, questions, probabilities,
                   asked_questions, updates, reinforces, game>>

Next ==
    \/ reset
    \/ \E q \in QuestionIds, a \in Answers : update_probabilities(q, a)
    \/ get_best_question
    \/ get_best_guess
    \/ \E n \in 0..MaxTopN : get_top_candidates(n)
    \/ \E e \in EntityNames, q \in ReinforceIds, a \in ReinforceAnswers,
          r \in LearningRates : reinforce_entity(e, q, a, r)

Spec == Init /\ [][Next]_vars

\* ------------------------------------------------------ a large catalog
\* size entities that all have the value 1.0 for the one question q1
LargeCatalog(size) ==
    [order |-> [i \in 1..size |-> i],
     attrs |-> [i \in 1..size |-> ("q1" :> One)],
     questions |-> <<"q1">>]

\* engine.py:21-35, from a catalog of LargeN entities or of a quarter of them
InitLarge ==
    /\ \E size \in {LargeN \div 4, LargeN} :
        /\ entities = LargeCatalog(size).attrs
        /\ entity_order = LargeCatalog(size).order
        /\ questions = LargeCatalog(size).questions
        /\ probabilities = initialize_probabilities(EmptyDict, LargeCatalog(size).attrs)
    /\ asked_questions = {}
    /\ last = NoCall
    /\ updates = 0
    /\ reinforces = 0
    /\ game = NoGame

NextLarge ==
    \/ reset
    \/ \E q \in QuestionIds, a \in Answers : update_probabilities(q, a)
    \/ get_best_question

SpecLarge == InitLarge /\ [][NextLarge]_vars

\* ---------------------------------------------------- the engine in floats
\* The posterior as the interpreter stores it: binary floating point,
\* round to nearest even, with binary64's exponent range (the least positive
\* value is 2^-1074, below which a result underflows to 0.0) and a significand
\* of SigBits bits where binary64 has 53.  A float is [m |-> significand,
\* e |-> exponent], the value m * 2^e, with e >= MinExponent and m < 2^SigBits,
\* and m >= 2^(SigBits-1) unless e = MinExponent (subnormal) or m = 0.
SigBits == 14
MinExponent == -(1022 + 52)

FZero == [m |-> 0, e |-> MinExponent]

\* the number of bits of an integer x >= 0
BitLength(x) == IF x = 0 THEN 0 ELSE 1 + ILog2(x)

\* the float nearest to (M + f) * 2^E, where 0 <= M < 2^30, 0 <= f < 1 and
\* sticky says f > 0; M carries at least SigBits + 1 bits, or f = 0
FRound(M, E, sticky) ==
    LET len == BitLength(M)
        drop == IF len - SigBits > MinExponent - E THEN len - SigBits
                ELSE MinExponent - E
    IN  IF M = 0 THEN FZero
        ELSE IF drop <= 0 THEN [m |-> M * 2 ^ (-drop), e |-> E + drop]
        ELSE IF drop > len THEN FZero
        ELSE LET q == M \div 2 ^ drop
                 r == M % 2 ^ drop
                 half == 2 ^ (drop - 1)
                 up == r > half \/ (r = half /\ (sticky \/ q % 2 = 1))
                 m == IF up THEN q + 1 ELSE q
             IN  IF m = 0 THEN FZero
                 ELSE IF m = 2 ^ SigBits THEN [m |-> m \div 2, e |-> E + drop + 1]
                 ELSE [m |-> m, e |-> E + drop]

\* x with its significand shifted up to SigBits bits (x # 0), the exponent
\* unbounded
FStretch(x) ==
    LET up == SigBits - BitLength(x.m)
    IN  [m |-> x.m * 2 ^ up, e |-> x.e - up]

\* x * y
FMul(x, y) == FRound(x.m * y.m, x.e + y.e, FALSE)

\* x / y, y # 0
FDiv(x, y) ==
    IF x.m = 0 THEN FZero
    ELSE LET a == FStretch(x)
             b == FStretch(y)
             num == a.m * 2 ^ (SigBits + 2)
         IN  FRound(num \div b.m, a.e - b.e - (SigBits + 2), num % b.m # 0)

\* x + y for x.e >= y.e
FAddOrdered(x, y) ==
    IF x.e - y.e > SigBits + 1 THEN x
    ELSE FRound(x.m * 2 ^ (x.e - y.e) + y.m, y.e, FALSE)

\* x + y
FAdd(x, y) ==
    IF x.m = 0 THEN y
    ELSE IF y.m = 0 THEN x
    ELSE IF x.e >= y.e THEN FAddOrdered(x, y) ELSE FAddOrdered(y, x)

\* the float nearest to the rational x, 0 <= x < 2^15
FromRational(x) ==
    IF x.n = 0 THEN FZero
    ELSE LET shift == 30 - BitLength(x.n)
             num == x.n * 2 ^ shift
         IN  FRound(num \div x.d, -shift, num % x.d # 0)

\* sum(d.values()): from 0, in the dict's order (engine.py:95)
RECURSIVE FSumTo(_, _, _)
FSumTo(d, order, k) ==
    IF k = 0 THEN FZero ELSE FAdd(FSumTo(d, order, k - 1), d[order[k]])

\* engine.py:37-43, in floats
initialize_probabilities_float(probs, ents) ==
    IF DOMAIN ents = {} THEN probs
    ELSE LET initial_prob == FDiv(FromRational(One),
                                  FromRational(R(Cardinality(DOMAIN ents), 1)))
         IN  [e \in DOMAIN probs \cup DOMAIN ents |->
                 IF e \in DOMAIN ents THEN initial_prob ELSE probs[e]]

\* engine.py:79-98, in floats: the likelihoods are rounded once
PosteriorFloat(probs, order, ents, question_id, answer) ==
    LET likelihoods == Likelihoods(ents, question_id, answer)
        multiplied == [e \in DOMAIN probs |->
                          FMul(probs[e], FromRational(likelihoods[e]))]
        total == FSumTo(multiplied, order, Len(order))
    IN  IF total.m > 0
        THEN [e \in DOMAIN probs |-> FDiv(multiplied[e], total)]
        ELSE multiplied

\* engine.py:21-35, in floats, from the catalog of spec.md's scenario A
InitFloat ==
    /\ entities = DogBird.attrs
    /\ entity_order = DogBird.order
    /\ questions = DogBird.questions
    /\ probabilities = initialize_probabilities_float(EmptyDict, DogBird.attrs)
    /\ asked_questions = {}
    /\ last = NoCall
    /\ updates = 0
    /\ reinforces = 0
    /\ game = NoGame

\* engine.py:45-48, in floats
reset_float ==
    /\ probabilities' = initialize_probabilities_float(probabilities, entities)
    /\ asked_questions' = {}
    /\ last' = [NoCall EXCEPT !.op = "reset"]
    /\ UNCHANGED <<entities, entity_order, questions, updates, reinforces, game>>

\* engine.py:65-98, in floats
update_probabilities_float(question_id, answer) ==
    /\ updates < MaxFloatUpdates
    /\ asked_questions' = asked_questions \cup {question_id}
    /\ probabilities' =
         IF IsUnknown(answer) THEN probabilities
         ELSE PosteriorFloat(probabilities, ProbOrder, entities, question_id, answer)
    /\ last' = [NoCall EXCEPT !.op = "update_probabilities", !.q = question_id,
                              !.a = answer]
    /\ updates' = updates + 1
    /\ UNCHANGED <<entities, entity_order, questions, reinforces, game>>

NextFloat ==
    \/ reset_float
    \/ update_probabilities_float("q1", One)

SpecFloat == InitFloat /\ [][NextFloat]_vars

\* ------------------------------------------------- a session of play_game
\* main.py's driver: main constructs an engine over the knowledge base's
\* dicts (the engine and the knowledge base hold the same dict objects,
\* knowledge_base.py:86-92, engine.py:29-30) and calls play_game, which asks
\* questions until it guesses, and learns from the player when it fails.
\* kb.save writes the file and changes nothing in memory.

\* play_game calls in one behaviour
MaxGames == 2

\* main.py:73
max_questions == 20
\* main.py:75
guess_threshold == R(3, 4)

\* main.py:20-27: three of the values get_answer_value returns: yes, do not
\* know, probably not
AnswerValues == {R(1, 1), R(0, 1), R(-1, 2)}

\* two entities that differ on both questions
DogBirdBoth ==
    [order |-> <<"Dog", "Bird">>,
     attrs |-> ("Dog" :> ("q1" :> R(1, 1) @@ "q2" :> R(1, 1)))
               @@ ("Bird" :> ("q1" :> R(-1, 1) @@ "q2" :> R(-1, 1))),
     questions |-> <<"q1", "q2">>]

\* the catalogs main constructs the engine from
GameCatalogs == {NoEntities, DogBirdBoth}

\* main.py:145: what the player names as the right answer: nothing, a name
\* some catalogs know, a name none knows
CorrectAnswers == {"", "Dog", "Owl"}

\* main.py:166: the answers to the taught question: yes, probably not
TaughtAnswers == {R(1, 1), R(-1, 2)}

\* main.py:154: the question the player teaches: nothing, or a text
NewQuestions == {"", "Does it hoot?"}

\* main.py:169: the ids uuid4 gives, one after the other
NewQuestionIds == <<"qn1", "qn2", "qn3", "qn4">>

\* main.py:169: an id that no question has yet
NewQuestionId(qs) ==
    LET used == {qs[i] : i \in 1..Len(qs)}
        free == {i \in 1..Len(NewQuestionIds) : NewQuestionIds[i] \notin used}
    IN  NewQuestionIds[CHOOSE i \in free : \A j \in free : i <= j]

\* main.py:85: best_guess and best_guess[1] >= guess_threshold
Confident(best_guess) ==
    /\ best_guess # << >>
    /\ RLe(guess_threshold, best_guess[1][2])

\* main.py:95-96: reinforce_entity for every item of answer_history whose
\* question id is in ids
RECURSIVE ReinforcedAll(_, _, _, _)
ReinforcedAll(ents, entity_name, answer_history, ids) ==
    IF ids = {} THEN ents
    ELSE LET question_id == CHOOSE q \in ids : TRUE
         IN  ReinforcedAll(Reinforced(ents, entity_name, question_id,
                                      answer_history[question_id],
                                      DefaultLearningRate),
                           entity_name, answer_history, ids \ {question_id})

\* knowledge_base.py:54-62
add_entity(ents, entity_name, attributes) ==
    [e \in DOMAIN ents \cup {entity_name} |->
        IF e = entity_name THEN attributes ELSE ents[e]]

\* a variant that gives the value to every entity
update_attribute_every(ents, entity_name, question_id, value) ==
    IF entity_name \in DOMAIN ents
    THEN [e \in DOMAIN ents |-> (question_id :> value) @@ ents[e]]
    ELSE ents

\* knowledge_base.py:64-74
update_attribute(ents, entity_name, question_id, value) ==
    IF entity_name \in DOMAIN ents
    THEN [ents EXCEPT ![entity_name] = (question_id :> value) @@ @]
    ELSE ents

\* main.py:172-186: the entity catalog after the player taught a new entity
\* with a new question
Learned(ents, history, best_guess, correct_answer, new_question_id, value) ==
    LET new_attributes == (new_question_id :> value) @@ history
        added == add_entity(ents, correct_answer, new_attributes)
    IN  IF best_guess # << >>
        THEN update_attribute(added, best_guess[1][1], new_question_id,
                              RNeg(value))
        ELSE added

\* main.py:220: main constructs an engine for the next play_game call
main_new_engine ==
    /\ game.pc = "done"
    /\ game.games < MaxGames
    /\ probabilities' = initialize_probabilities(EmptyDict, entities)
    /\ asked_questions' = {}
    /\ last' = NoCall
    /\ game' = [NoGame EXCEPT !.games = game.games]
    /\ UNCHANGED <<entities, entity_order, questions, updates, reinforces>>

\* main.py:65-78: play_game starts, resets the engine
play_game_start ==
    /\ game.pc = "idle"
    /\ game.games < MaxGames
    /\ probabilities' = initialize_probabilities(probabilities, entities)
    /\ asked_questions' = {}
    /\ last' = [NoCall EXCEPT !.op = "reset"]
    /\ game' = [NoGame EXCEPT !.pc = "loop", !.step = "start",
                              !.games = game.games + 1]
    /\ UNCHANGED <<entities, entity_order, questions, updates, reinforces>>

\* main.py:81-100: the guess is confident and the player confirms it
play_game_guess_confirmed ==
    /\ game.pc = "loop"
    /\ game.question_count < max_questions
    /\ Confident(BestGuess)
    /\ entities' = ReinforcedAll(entities, BestGuess[1][1], game.answer_history,
                                 DOMAIN game.answer_history)
    /\ last' = IF DOMAIN game.answer_history = {}
               THEN [NoCall EXCEPT !.op = "get_best_guess", !.ret = BestGuess]
               ELSE [NoCall EXCEPT !.op = "reinforce_entity",
                                   !.e = BestGuess[1][1]]
    /\ game' = [game EXCEPT !.pc = "done", !.step = "guess_confirmed",
                            !.best_guess = BestGuess]
    /\ UNCHANGED <<entity_order, questions, probabilities, asked_questions,
                   updates, reinforces>>

\* main.py:81-104: the guess is confident and the player rejects it
play_game_guess_rejected ==
    /\ game.pc = "loop"
    /\ game.question_count < max_questions
    /\ Confident(BestGuess)
    /\ last' = [NoCall EXCEPT !.op = "get_best_guess", !.ret = BestGuess]
    /\ game' = [game EXCEPT !.pc = "final", !.step = "guess_rejected",
                            !.best_guess = BestGuess]
    /\ UNCHANGED <<entities, entity_order, questions, probabilities,
                   asked_questions, updates, reinforces>>

\* main.py:81-129: no confident guess, the best question is asked and answered
play_game_ask ==
    /\ game.pc = "loop"
    /\ game.question_count < max_questions
    /\ ~Confident(BestGuess)
    /\ LET best_question == BestQuestion
       IN  /\ best_question # << >>
           /\ asked_questions' = asked_questions \cup {best_question[1]}
           /\ \E answer_value \in AnswerValues :
                /\ probabilities' =
                     IF IsUnknown(answer_value) THEN probabilities
                     ELSE Posterior(probabilities, entities, best_question[1],
                                    answer_value)
                /\ game' = [game EXCEPT
                               !.step = "ask",
                               !.answer_history =
                                   [q \in DOMAIN @ \cup {best_question[1]} |->
                                       IF q = best_question[1] THEN answer_value
                                       ELSE @[q]],
                               !.question_count = @ + 1,
                               !.best_guess = BestGuess]
    /\ UNCHANGED <<entities, entity_order, questions, updates, reinforces>>
    /\ last' = [NoCall EXCEPT !.op = "get_top_candidates", !.n = 3,
                              !.ret = TopCandidates(3)']

\* main.py:81, 107-111: the loop ends without a confident guess: max_questions
\* questions were asked, or no question is left
play_game_loop_ends ==
    /\ game.pc = "loop"
    /\ LET best_question == IF game.question_count < max_questions
                            THEN BestQuestion ELSE << >>
       IN  /\ ~(/\ game.question_count < max_questions
                /\ (Confident(BestGuess) \/ best_question # << >>))
           /\ last' = IF game.question_count < max_questions
                      THEN [NoCall EXCEPT !.op = "get_best_question",
                                          !.ret = best_question]
                      ELSE last
    /\ game' = [game EXCEPT !.pc = "final", !.step = "loop_ends"]
    /\ UNCHANGED <<entities, entity_order, questions, probabilities,
                   asked_questions, updates, reinforces>>

\* main.py:132-141: the last guess is offered and the player confirms it
play_game_final_confirmed ==
    /\ game.pc = "final"
    /\ BestGuess # << >>
    /\ last' = [NoCall EXCEPT !.op = "get_best_guess", !.ret = BestGuess]
    /\ game' = [game EXCEPT !.pc = "done", !.step = "final_confirmed",
                            !.best_guess = BestGuess]
    /\ UNCHANGED <<entities, entity_order, questions, probabilities,
                   asked_questions, updates, reinforces>>

\* main.py:132-198: there is no guess or the player rejects it, and names
\* the right answer, a new question and its answer
play_game_learn(correct_answer, new_question, answer_value) ==
    /\ game.pc = "final"
    /\ last' = [NoCall EXCEPT !.op = "get_best_guess", !.ret = BestGuess]
    /\ IF \/ correct_answer = ""
          \/ correct_answer \in DOMAIN entities
          \/ new_question = ""
       THEN /\ game' = [game EXCEPT !.pc = "done", !.step = "nothing_learned",
                                    !.best_guess = BestGuess]
            /\ UNCHANGED <<entities, entity_order, questions>>
       ELSE LET new_question_id == NewQuestionId(questions)
            IN  /\ questions' = Append(questions, new_question_id)
                /\ entities' = Learned(entities, game.answer_history, BestGuess,
                                       correct_answer, new_question_id,
                                       answer_value)
                /\ entity_order' = Append(entity_order, correct_answer)
                /\ game' = [game EXCEPT !.pc = "done", !.step = "learned",
                                        !.best_guess = BestGuess]
    /\ UNCHANGED <<probabilities, asked_questions, updates, reinforces>>

NextGame ==
    \/ main_new_engine
    \/ play_game_start
    \/ play_game_guess_confirmed
    \/ play_game_guess_rejected
    \/ play_game_ask
    \/ play_game_loop_ends
    \/ play_game_final_confirmed
    \/ \E c \in CorrectAnswers, t \in NewQuestions, a \in TaughtAnswers :
          play_game_learn(c, t, a)

\* main.py:216-220
InitGame ==
    \E c \in GameCatalogs :
        /\ entities = c.attrs
        /\ entity_order = c.order
        /\ questions = c.questions
        /\ probabilities = initialize_probabilities(EmptyDict, c.attrs)
        /\ asked_questions = {}
        /\ last = NoCall
        /\ updates = 0
        /\ reinforces = 0
        /\ game = NoGame

SpecGame == InitGame /\ [][NextGame]_vars

\* ------------------------------------------------------------- properties
InRange(x, lo, hi) == RLe(lo, x) /\ RLe(x, hi)

\* f[s[1]] + ... + f[s[k]]
RECURSIVE SumTo(_, _, _)
SumTo(f, s, k) == IF k = 0 THEN Zero ELSE RAdd(SumTo(f, s, k - 1), f[s[k]])

\* the posterior values, added up entity by entity
PosteriorTotal == SumTo(probabilities, ProbOrder, Len(ProbOrder))

\* C1: with a non-empty entity catalog the posterior values sum to 1 in
\* every state reached by construct, reset and update_probabilities.
C1_PosteriorSumsToOne ==
    DOMAIN entities # {} => PosteriorTotal = One

\* two updates with informative answers have been applied and the posterior
\* is no longer uniform
C1_Witness ==
    /\ last.op = "update_probabilities"
    /\ ~RLt(RAbs(last.a), R(1, 100))
    /\ updates = 2
    /\ \E e1, e2 \in DOMAIN probabilities : probabilities[e1] # probabilities[e2]
    /\ PosteriorTotal = One

\* C2: get_best_question never returns an id of the asked-set, and returns
\* none exactly when every question id of the catalog is in the asked-set.
C2_BestQuestionUnaskedNoneIffExhausted ==
    last.op = "get_best_question"
        => /\ \A i \in 1..Len(last.ret) : last.ret[i] \notin asked_questions
           /\ last.ret = << >>
                <=> \A i \in 1..Len(questions) : questions[i] \in asked_questions

\* C3: after reinforce_entity(entity, q, answer, rate) the entity's stored
\* value for q lies in [-1, 1], whether or not it had a value before.
C3_ReinforcedValueInRange ==
    (last.op = "reinforce_entity" /\ last.e \in DOMAIN entities)
        => InRange(entities[last.e][last.q], R(-1, 1), One)

\* C4: update_probabilities(q, a) with |a| < 0.01 leaves every posterior
\* value as it was, adds q to the asked-set and changes nothing else.
C4_UnknownAnswerOnlyMarksAsked ==
    [][(last'.op = "update_probabilities" /\ RLt(RAbs(last'.a), R(1, 100)))
          => /\ probabilities' = probabilities
             /\ asked_questions' = asked_questions \cup {last'.q}
             /\ UNCHANGED <<entities, entity_order, questions>>]_vars

\* an "unknown" answer that is not 0.0 has been given for a question some
\* entity has a value for, after an informative answer
C4_Witness ==
    /\ last.op = "update_probabilities"
    /\ last.a = R(1, 200)
    /\ last.q \in asked_questions
    /\ \E e \in DOMAIN entities : last.q \in DOMAIN entities[e]
    /\ \E e1, e2 \in DOMAIN probabilities : probabilities[e1] # probabilities[e2]

\* C5: construct and reset yield the Fresh state: the asked-set is empty
\* and, with a non-empty catalog, every entity's posterior is 1/|entities|.
C5_ResetYieldsFresh ==
    last.op \in {"construct", "reset"}
        => /\ asked_questions = {}
           /\ DOMAIN entities # {}
                => /\ DOMAIN probabilities = DOMAIN entities
                   /\ \A e \in DOMAIN entities :
                        probabilities[e] = R(1, Cardinality(DOMAIN entities))

\* reset has been called after every update the bounds allow
C5_Witness ==
    /\ last.op = "reset"
    /\ updates = MaxUpdates
    /\ DOMAIN entities # {}
    /\ asked_questions = {}

\* C6: an id in the asked-set stays in it unless reset is called, and only
\* update_probabilities adds ids.
C6_AskedSetMonotone ==
    [][/\ asked_questions \subseteq asked_questions' \/ last'.op = "reset"
       /\ asked_questions' \subseteq asked_questions
             \/ last'.op = "update_probabilities"]_vars

\* other operations have run while ids were in the asked-set
C6_Witness ==
    /\ asked_questions # {}
    /\ last.op \in {"get_best_question", "reinforce_entity"}
    /\ updates >= 1

\* the likelihood the claims state: max(0.1, 1 - 0.45 |v - a|), 0.5 for an
\* entity with no value for the question
ClaimedLikelihood(attributes, q, a) ==
    IF q \in DOMAIN attributes
    THEN RMax(R(1, 10), RSub(One, RMul(R(9, 20), RAbs(RSub(attributes[q], a)))))
    ELSE R(1, 2)

\* prior(e) * L(e)
ClaimedWeight(e, q, a) ==
    RMul(probabilities[e], ClaimedLikelihood(entities[e], q, a))

\* C7: after update_probabilities(q, a) with |a| >= 0.01 every entity's
\* posterior is prior(e) L(e) divided by the sum of prior L over the entities.
C7_BayesianUpdate ==
    [][(last'.op = "update_probabilities" /\ ~RLt(RAbs(last'.a), R(1, 100)))
          => LET w == [e \in DOMAIN probabilities |->
                          ClaimedWeight(e, last'.q, last'.a)]
                 total == SumTo(w, ProbOrder, Len(ProbOrder))
             IN  \A e \in DOMAIN probabilities :
                    RMul(probabilities'[e], total) = w[e]]_vars

\* spec.md scenario A: Dog 10/11 and Bird 1/11 after the answer 1.0 to q1
C7_Witness ==
    /\ last.op = "update_probabilities" /\ last.q = "q1" /\ last.a = One
    /\ entity_order = <<"Dog", "Bird">>
    /\ probabilities["Dog"] = R(10, 11)
    /\ probabilities["Bird"] = R(1, 11)

\* the values a likelihood is computed from: quarters of [-1, 1]
Quarters == {R(k, 4) : k \in -4..4}

\* C8: 0.1 <= likelihood(expected, answer) <= 1.0 on [-1, 1], likelihood(e, e)
\* is 1.0 and the difference 2.0 gives the floor 0.1; so is every likelihood
\* an update computed from an entity's value.
C8_LikelihoodBounds ==
    /\ \A x, a \in Quarters :
          /\ InRange(calculate_likelihood(x, a), R(1, 10), One)
          /\ calculate_likelihood(x, x) = One
    /\ calculate_likelihood(One, R(-1, 1)) = R(1, 10)
    /\ calculate_likelihood(R(-1, 1), One) = R(1, 10)
    /\ last.op = "update_probabilities"
          => \A e \in DOMAIN last.lik :
                /\ InRange(last.lik[e], R(1, 10), One)
                /\ (last.q \in DOMAIN entities[e] /\ entities[e][last.q] = last.a)
                      => last.lik[e] = One

\* an update computed the likelihood 1.0 for one entity and the floor 0.1
\* for another
C8_Witness ==
    /\ last.op = "update_probabilities"
    /\ \E e1, e2 \in DOMAIN last.lik :
          last.lik[e1] = One /\ last.lik[e2] = R(1, 10)

\* C9: after any sequence of update_probabilities calls with answers in
\* [-1, 1] every entity's posterior is greater than zero.
C9_NoEntityEliminated ==
    \A e \in DOMAIN probabilities : probabilities[e].m > 0

\* C10: get_best_guess returns none exactly when the posterior is empty and
\* otherwise an entity of maximal posterior; get_top_candidates(n) returns at
\* most n entries in non-increasing order, the first being get_best_guess's.
C10_Reporter ==
    /\ last.op = "get_best_guess"
          => /\ last.ret = << >> <=> DOMAIN probabilities = {}
             /\ last.ret # << >>
                  => /\ last.ret[1][1] \in DOMAIN probabilities
                     /\ last.ret[1][2] = probabilities[last.ret[1][1]]
                     /\ \A e \in DOMAIN probabilities :
                           RLe(probabilities[e], last.ret[1][2])
    /\ last.op = "get_top_candidates"
          => /\ Len(last.ret) <= last.n
             /\ \A i \in 1..Len(last.ret) :
                   /\ last.ret[i][1] \in DOMAIN probabilities
                   /\ last.ret[i][2] = probabilities[last.ret[i][1]]
                   /\ i > 1 => RLe(last.ret[i][2], last.ret[i - 1][2])
             /\ last.ret # << >> => <<last.ret[1]>> = BestGuess

\* get_top_candidates cut a list whose first two entries tie, and the tie is
\* not with the first entity of the catalog alone
C10_Witness ==
    /\ last.op = "get_top_candidates"
    /\ last.n = 2
    /\ Len(last.ret) = 2
    /\ Len(entity_order) = 3
    /\ last.ret[1][2] = last.ret[2][2]
    /\ updates >= 1

\* C11, as claimed: the attribute vector of an entity of the catalog is
\* changed only by reinforce_entity, and only after the driver has confirmed
\* a correct guess; no other engine operation and no other step of a
\* play_game session changes an existing entity's attributes
C11_AttributesChangedOnlyByReinforcement ==
    [][\A e \in DOMAIN entities :
          /\ e \in DOMAIN entities'
          /\ entities'[e] # entities[e] =>
                /\ game'.step = "guess_confirmed"
                /\ last'.op = "reinforce_entity"]_vars

\* the step taught a new entity with a new question, and e, the entity
\* guessed last, got the negated answer as its value for the new question
\* and kept its other values
TaughtOpposite(e) ==
    /\ game'.step = "learned"
    /\ game'.best_guess # << >>
    /\ e = game'.best_guess[1][1]
    /\ LET new_question_id == questions'[Len(questions')]
           new_entity == entity_order'[Len(entity_order')]
       IN  /\ new_question_id \notin DOMAIN entities[e]
           /\ new_entity \notin DOMAIN entities
           /\ entities'[e] =
                 (new_question_id :> RNeg(entities'[new_entity][new_question_id]))
                 @@ entities[e]

\* C11, amended: the attribute vector of an entity of the catalog is changed
\* only by reinforce_entity after the driver has confirmed a correct guess,
\* or by the learning phase of play_game, which after a failed guess gives
\* the entity guessed last the negated answer as its value for the newly
\* taught question; no other engine operation and no other step of a
\* play_game session changes an existing entity's attributes
C11_AttributesChangedByReinforcementOrTeaching ==
    [][\A e \in DOMAIN entities :
          /\ e \in DOMAIN entities'
          /\ entities'[e] # entities[e] =>
                \/ /\ game'.step = "guess_confirmed"
                   /\ last'.op = "reinforce_entity"
                \/ TaughtOpposite(e)]_vars

\* a session reinforced Dog's value for q1 after a confirmed guess, and a
\* later session taught a new entity and gave its last guess the new
\* question's negated answer
C11_Witness ==
    /\ game.step = "learned"
    /\ game.games = 2
    /\ "Dog" \in DOMAIN entities
    /\ "q1" \in DOMAIN entities["Dog"]
    /\ entities["Dog"]["q1"] = R(9, 10)
    /\ game.best_guess # << >>
    /\ LET new_question_id == questions[Len(questions)]
           new_entity == entity_order[Len(entity_order)]
           guessed == game.best_guess[1][1]
       IN  /\ new_question_id \in DOMAIN entities[guessed]
           /\ entities[guessed][new_question_id] =
                 RNeg(entities[new_entity][new_question_id])
           /\ entities[guessed][new_question_id] # Zero

====
